---- MODULE Spec2Model ----
(***************************************************************************)
(* Model of the execution orchestration engine of playwright-runner:       *)
(* PlaywrightOSExecutorService (the resource-monitoring variant), its      *)
(* in-flight map, the runner child processes with their timers, the        *)
(* graceful shutdown and the status writes to the Execution records.       *)
(*                                                                         *)
(* Every await of the source is a point where other handlers interleave:   *)
(* a program counter per executeTest call names the await it is parked at. *)
(* updateExecutionStatus issues a write when it is called; the store       *)
(* applies it in a later step, and the code after the await runs in a      *)
(* step after that (the reply). The store applies the writes issued for    *)
(* one Execution in the order the engine issued them, and every write      *)
(* succeeds. After process.exit the engine takes no further step.          *)
(*                                                                         *)
(* The result normalizer (processResults) is a function of the raw result  *)
(* of one run; NormSpec applies it to every raw result of a bounded set of *)
(* reports, with suites nested up to three deep.                           *)
(***************************************************************************)
EXTENDS Integers, FiniteSets, Sequences, TLC

\* ---- bounds of the model ----
\* number of distinct Execution ids delivered to the engine
NumJobs == 2
\* number of executeTest calls that pass admission
MaxCalls == 2
\* largest value of config.maxConcurrentTests the model is run with; the
\* default 5 is scaled down so that the pool fills within the bounds
MaxConfigured == 2
\* most specs listed directly in one suite of a sample report
MaxSpecs == 1
\* most suites nested directly in one suite, and most top-level suites
MaxSuites == 1
\* the number of uploadExecutionFile calls
MaxUploads == 2
\* the number of ExecutionFile documents a cleanup starts from
MaxFiles == 3
\* stands for the batch size of cleanupExpiredFiles, .limit(100)
ExpiredLimit == 2
\* stands for the batch size of cleanupOrphanedFiles, $limit: 50
OrphanLimit == 2
\* the number of submissions to the HTTP layer
MaxRequests == 3
\* the longest string given as a timeout override, in characters
MaxStrLen == 3
\* the number of attachments with a path in the report
MaxAttachments == 2
\* the number of entries of the sandbox's results folder
MaxEntries == 3
\* the latest value of the clock, in seconds
MaxTime == 2
\* the longest lifetime asked of getSignedUrl, in seconds
MaxExpiresIn == 1
\* the number of signed URLs issued
MaxIssued == 1

Jobs == 1..NumJobs
Calls == 1..MaxCalls

\* ---- values ----
Statuses == {"queued", "running", "completed", "failed", "cancelled"}
Terminal == {"completed", "failed", "cancelled"}

NoMessage == "none"
ShutdownMessage == "Service shutdown"
TimeoutMessage == "Test execution timed out"
SpawnMessage == "Failed to execute Playwright"
EnvMessage == "Environment setup failed"
PersistMessage == "Persist failed"
WriteMessage == "Write failed"
Messages == {NoMessage, ShutdownMessage, TimeoutMessage, SpawnMessage, EnvMessage, PersistMessage,
             WriteMessage}

\* the saves of persistResults, in the order it makes them
PersistStages == {"metrics", "details", "files"}

PcValues == {"idle", "setRunning", "createEnv", "monitoring", "processResults",
             "setFinal", "setFailed", "finally", "done"}

\* a write issued by updateExecutionStatus: by = the issuing call, 0 = performGracefulShutdown
Writes == [by : 0..MaxCalls, status : Statuses, msg : Messages]

VARIABLES
  maxConcurrentTests, \* config.maxConcurrentTests, fixed at construction
  runningTests,    \* Map<string, RunningTestInfo>: job id -> call owning the stored testInfo, 0 = no entry
  isShuttingDown,  \* the shutdown flag
  pending,         \* per job id: the writes issued by updateExecutionStatus and not yet applied, oldest first
  exited,          \* process.exit was called: the engine runs no more code
  status,          \* Execution.status per job id (the repository)
  errorMessage,    \* Execution.errorMessage per job id
  calls,           \* number of executeTest calls admitted so far
  job,             \* per call: sanitizedExecution.id
  pc,              \* per call: the await executeTest is parked at
  child,           \* per call: the runner child process: "none" | "alive" | "exited" | "failed"
  killed,          \* per call: ChildProcess.killed
  signals,         \* per call: signals delivered to the live child
  timeoutId,       \* per call: the timeout timer: "none" | "armed" | "cleared" | "fired"
  killTimer,       \* per call: terminateProcess's 5 s timer: "none" | "armed" | "fired"
  metricsInterval, \* per call: testInfo.metricsInterval is set
  error,           \* per call: message of the error executeTest has caught and is recording
  lastSubmit,      \* what the latest executeTest call did before its first await
  shutdownPromise, \* performGracefulShutdown's promise: "null" | "pending" | how it resolved
  executionDir,    \* per job id: the directory outputDir/<id> exists
  metricsDocs,     \* per job id: number of ExecutionMetrics documents saved for the Execution
  detailDocs,      \* per job id: number of runs whose ExecutionDetail documents were all saved
  fragment,        \* per call, until it returns: results.json held a report fragment when the timeout fired
  rawResult,       \* the PlaywrightExecutionResult handed to processResults
  processedResults, \* the ProcessedResults it returned
  files,           \* the ExecutionFile documents of the collection, in insertion order
  objects,         \* the storage provider: the stored objects, each a key and its bytes
  executions,      \* the _id values of the Execution documents that exist
  lastOp,          \* the latest StorageService / StorageCleanupService call and its result
  now,             \* Math.floor(Date.now() / 1000)
  issued,          \* the signed URLs that getSignedUrl has returned
  lastValidate,    \* the latest validateSignedUrl call and its result
  requests,        \* per submission to the HTTP layer: its input, position and response
  executionDocs,   \* the Execution documents the HTTP layer has saved, in order
  queue,           \* the jobs added to the 'test-execution' queue, in order
  executionConfig, \* the 'timeout' entry of execution.executionConfig
  timerDelay,      \* the delay in ms that setTimeout armed the timeout timer with, 0 before
  reportFiles,     \* the files processSpec listed from the report's attachments, in order
  resultsDir,      \* the sandbox's results folder: whether readdir succeeds, and its entries in order
  artifactFiles,  \* <<files>> once processResults has built its file list, <<>> before
  raised          \* per call: executeTest rejected, the error went to the queue processor

vars == <<maxConcurrentTests, runningTests, isShuttingDown, pending, exited, status,
          errorMessage, calls, job, pc, child, killed, signals, timeoutId, killTimer,
          metricsInterval, error, lastSubmit, shutdownPromise, executionDir,
          metricsDocs, detailDocs, fragment, rawResult, processedResults,
          files, objects, executions, lastOp, now, issued, lastValidate,
          requests, executionDocs, queue,
          executionConfig, timerDelay,
          reportFiles, resultsDir, artifactFiles,
          raised>>

engineVars == <<maxConcurrentTests, runningTests, isShuttingDown, pending, exited>>
recordVars == <<status, errorMessage>>
childVars == <<child, killed, signals, timeoutId, killTimer>>
persistVars == <<metricsDocs, detailDocs>>
normVars == <<rawResult, processedResults>>
storeVars == <<files, objects, executions, lastOp>>
signVars == <<now, issued, lastValidate>>
apiVars == <<requests, executionDocs, queue>>
timerVars == <<executionConfig, timerDelay>>
artifactVars == <<reportFiles, resultsDir, artifactFiles>>
faultVars == <<raised>>
\* the variables outside the executor
sideVars == <<normVars, storeVars, signVars, apiVars, timerVars, artifactVars, faultVars>>
\* the variables of the executor
executorVars == <<engineVars, recordVars, childVars, calls, job, pc, metricsInterval,
                  error, lastSubmit, shutdownPromise, executionDir, persistVars, fragment>>
\* what each part outside the executor leaves alone
exceptNorm == <<executorVars, storeVars, signVars, apiVars, timerVars, artifactVars, faultVars>>
exceptStore == <<executorVars, normVars, signVars, apiVars, timerVars, artifactVars, faultVars>>
exceptSign == <<executorVars, normVars, storeVars, apiVars, timerVars, artifactVars, faultVars>>
exceptApi == <<executorVars, normVars, storeVars, signVars, timerVars, artifactVars, faultVars>>
exceptTimer == <<executorVars, normVars, storeVars, signVars, apiVars, artifactVars, faultVars>>
exceptArtifact == <<executorVars, normVars, storeVars, signVars, apiVars, timerVars, faultVars>>

\* no run has been handed to processResults, none has been returned
NoResult == <<>>

\* a Buffer: its content, its length in bytes, and the number of gzip layers
\* around it (bytes and size are those of the content inside the layers)
NoBuffer == [bytes |-> "", size |-> 0, gz |-> 0]

\* no storage call has been made
NoOp == [op |-> "none", id |-> 0, fileType |-> "none", input |-> NoBuffer,
         output |-> NoBuffer, uploaded |-> <<>>, batch |-> <<>>, failing |-> {},
         fault |-> "none", outcome |-> "none"]

Outcomes == {"none", "accepted", "ValidationFailure", "CapacityExceeded", "ServiceUnavailable"}

EngineInit ==
  /\ maxConcurrentTests \in 1..MaxConfigured
  /\ runningTests = [j \in Jobs |-> 0]
  /\ isShuttingDown = FALSE
  /\ pending = [j \in Jobs |-> <<>>]
  /\ exited = FALSE
  /\ status = [j \in Jobs |-> "queued"]
  /\ errorMessage = [j \in Jobs |-> NoMessage]
  /\ calls = 0
  /\ job = [c \in Calls |-> 0]
  /\ pc = [c \in Calls |-> "idle"]
  /\ child = [c \in Calls |-> "none"]
  /\ killed = [c \in Calls |-> FALSE]
  /\ signals = [c \in Calls |-> {}]
  /\ timeoutId = [c \in Calls |-> "none"]
  /\ killTimer = [c \in Calls |-> "none"]
  /\ metricsInterval = [c \in Calls |-> FALSE]
  /\ error = [c \in Calls |-> NoMessage]
  /\ lastSubmit = "none"
  /\ shutdownPromise = "null"
  /\ executionDir = [j \in Jobs |-> FALSE]
  /\ metricsDocs = [j \in Jobs |-> 0]
  /\ detailDocs = [j \in Jobs |-> 0]
  /\ fragment = [c \in Calls |-> FALSE]

\* no run is being normalized
NormIdle ==
  /\ rawResult = NoResult
  /\ processedResults = NoResult

\* the storage holds nothing and has not been called
StoreIdle ==
  /\ files = <<>>
  /\ objects = {}
  /\ executions = {}
  /\ lastOp = NoOp

\* no URL has been signed, none validated
NoValidate == [key |-> <<>>, token |-> <<>>, expires |-> <<>>, at |-> 0, result |-> FALSE]

SignIdle ==
  /\ now = 0
  /\ issued = {}
  /\ lastValidate = NoValidate

\* a submission not made yet
NoRequest == [pc |-> "idle", valid |-> FALSE, fault |-> "none", id |-> 0,
              response |-> [success |-> FALSE, id |-> 0, status |-> "none"]]

\* the HTTP layer has received nothing
ApiIdle ==
  /\ requests = [r \in 1..MaxRequests |-> NoRequest]
  /\ executionDocs = <<>>
  /\ queue = <<>>

\* no executionConfig has been read, no timer armed with it
NoConfig == [type |-> "none", num |-> 0, str |-> <<>>]

TimerIdle ==
  /\ executionConfig = NoConfig
  /\ timerDelay = 0

\* no sandbox is being scanned for artifacts
ArtifactIdle ==
  /\ reportFiles = <<>>
  /\ resultsDir = [readable |-> TRUE, entries |-> <<>>]
  /\ artifactFiles = <<>>

\* no call of executeTest has rejected
FaultIdle == raised = [c \in Calls |-> FALSE]

Init ==
  /\ EngineInit
  /\ NormIdle
  /\ StoreIdle
  /\ SignIdle
  /\ ApiIdle
  /\ FaultIdle
  /\ ArtifactIdle
  /\ TimerIdle

\* ---- helpers ----

\* this.runningTests.size
Size == Cardinality({j \in Jobs : runningTests[j] # 0})

\* an off-by-one capacity check
AtCapacityOffByOne == Size > maxConcurrentTests

\* this.runningTests.size >= this.config.maxConcurrentTests
AtCapacity == Size >= maxConcurrentTests

\* the base URLs of the sample Executions
UrlSamples == {"http://h", "HTTPS://h", "ftp://h", "javascript:alert(1)", "not a url"}

\* new URL(url).protocol; "TypeError" when new URL throws
protocol(url) ==
  CASE url = "http://h" -> "http:"
    [] url = "HTTPS://h" -> "https:"
    [] url = "ftp://h" -> "ftp:"
    [] url = "javascript:alert(1)" -> "javascript:"
    [] OTHER -> "TypeError"

\* the Executions handed to executeTest: whether the fields other than id,
\* code and baseUrl fit the schema, and these three ("undefined" when absent)
ExecutionInputs ==
  [otherFieldsOk : BOOLEAN, id : {"undefined", "", "e"}, code : {"undefined", "", "c"},
   baseUrl : UrlSamples \cup {"undefined"}]

\* ExecutionSchema.parse(execution) does not throw
SchemaParses(execution) ==
  /\ execution.otherFieldsOk
  /\ execution.id # "undefined"
  /\ execution.code # "undefined"
  /\ execution.baseUrl # "undefined" => protocol(execution.baseUrl) # "TypeError"

\* validateExecution returns without throwing
validateExecution(execution) ==
  /\ SchemaParses(execution)
  /\ ~(execution.id = "" \/ execution.code = "")

\* a sanitizeUrl that accepts every URL that parses
sanitizeUrlAnyProtocol(url) == protocol(url) # "TypeError"

\* sanitizeUrl returns without throwing
sanitizeUrl(url) == protocol(url) \in {"http:", "https:"}

\* sanitizeExecution returns without throwing
sanitizeExecution(execution) ==
  execution.baseUrl \notin {"undefined", ""} => sanitizeUrl(execution.baseUrl)

\* executeTest gets past its step 1
Validates(execution) == validateExecution(execution) /\ sanitizeExecution(execution)

\* whether step 1 is passed, over the sample Executions
Validities == {Validates(execution) : execution \in ExecutionInputs}

\* an admission that checks the shutdown flag but not the pool size
AdmissionSkipsCapacity(valid) ==
  IF ~valid THEN "ValidationFailure"
  ELSE IF isShuttingDown THEN "ServiceUnavailable"
  ELSE "accepted"

\* an admission that checks the pool size but not the shutdown flag
AdmissionIgnoresShutdown(valid) ==
  IF ~valid THEN "ValidationFailure"
  ELSE IF AtCapacity THEN "CapacityExceeded"
  ELSE "accepted"

\* what executeTest does before its first await: the error it throws, or "accepted"
Admission(valid) ==
  IF ~valid THEN "ValidationFailure"
  ELSE IF AtCapacity THEN "CapacityExceeded"
  ELSE IF isShuttingDown THEN "ServiceUnavailable"
  ELSE "accepted"

\* updateExecutionStatus(id, status, .., errorMessage) called by `by`: the write is issued
Issue(id, by, st, msg) ==
  [pending EXCEPT ![id] = Append(@, [by |-> by, status |-> st, msg |-> msg])]

\* the store applies the oldest write issued for id: an unconditional
\* findOneAndUpdate({id}, {status, errorMessage?}), errorMessage only if truthy
Apply(id) ==
  LET w == Head(pending[id]) IN
  /\ pending' = [pending EXCEPT ![id] = Tail(@)]
  /\ status' = [status EXCEPT ![id] = w.status]
  /\ errorMessage' = IF w.msg # NoMessage THEN [errorMessage EXCEPT ![id] = w.msg]
                      ELSE errorMessage

\* the oldest write pending for id was issued by `by`
NextWriteBy(id, by) == pending[id] # <<>> /\ Head(pending[id]).by = by

\* ChildProcess.kill succeeds, and sets killed, only while the child has a handle
KillDelivers(c) == child[c] = "alive"

\* terminateProcess on the children of the calls in T
TerminateSignals(T) ==
  [c \in Calls |-> IF c \in T /\ ~killed[c] /\ KillDelivers(c)
                   THEN signals[c] \cup {"SIGTERM"} ELSE signals[c]]
TerminateKilled(T) ==
  [c \in Calls |-> IF c \in T /\ ~killed[c] /\ KillDelivers(c) THEN TRUE ELSE killed[c]]
TerminateTimer(T) ==
  [c \in Calls |-> IF c \in T /\ ~killed[c] THEN "armed" ELSE killTimer[c]]

\* ---- executeTest ----

\* executeTest up to its first await: validation, the two admission checks,
\* runningTests.set and the call of updateExecutionStatus(id, 'running', new Date())
executeTest(j, valid) ==
  /\ ~exited
  /\ LET outcome == Admission(valid) IN
     /\ lastSubmit' = outcome
     /\ IF outcome = "accepted"
        THEN /\ calls < MaxCalls
             /\ calls' = calls + 1
             /\ job' = [job EXCEPT ![calls + 1] = j]
             /\ pc' = [pc EXCEPT ![calls + 1] = "setRunning"]
             /\ runningTests' = [runningTests EXCEPT ![j] = calls + 1]
             /\ pending' = Issue(j, calls + 1, "running", NoMessage)
        ELSE UNCHANGED <<calls, job, pc, runningTests, pending>>
  /\ UNCHANGED <<maxConcurrentTests, isShuttingDown, exited, recordVars,
                 childVars, metricsInterval, error, shutdownPromise, executionDir, persistVars, fragment, sideVars>>

\* the store applies the 'running' write of call c
SetRunning(c) ==
  /\ ~exited
  /\ pc[c] = "setRunning"
  /\ NextWriteBy(job[c], c)
  /\ Apply(job[c])
  /\ pc' = [pc EXCEPT ![c] = "createEnv"]
  /\ UNCHANGED <<maxConcurrentTests, runningTests, isShuttingDown, exited, calls, job,
                 childVars, metricsInterval, error, lastSubmit, shutdownPromise, executionDir, persistVars, fragment, sideVars>>

\* the catch block of executeTest: updateExecutionStatus(id, 'failed', undefined, new Date(), error.message)
Catch(c, msg) ==
  /\ pc' = [pc EXCEPT ![c] = "setFailed"]
  /\ error' = [error EXCEPT ![c] = msg]
  /\ pending' = Issue(job[c], c, "failed", msg)

\* createExecutionEnvironment throws: in fs.mkdir (madeDir is FALSE), or in a
\* later file write or in ensurePlaywrightAvailable (the directory exists)
CreateEnvFails(c, madeDir) ==
  /\ ~exited
  /\ pc[c] = "createEnv"
  /\ executionDir' = [executionDir EXCEPT ![job[c]] = @ \/ madeDir]
  /\ Catch(c, EnvMessage)
  /\ UNCHANGED <<maxConcurrentTests, runningTests, isShuttingDown, exited, recordVars,
                 calls, job, childVars, metricsInterval, lastSubmit, shutdownPromise, persistVars, fragment, sideVars>>

\* createExecutionEnvironment returns and executeWithMonitoring spawns the
\* runner: testInfo.process is set, sampling starts, the timeout is armed
Spawn(c) ==
  /\ ~exited
  /\ pc[c] = "createEnv"
  /\ pc' = [pc EXCEPT ![c] = "monitoring"]
  /\ child' = [child EXCEPT ![c] = "alive"]
  /\ metricsInterval' = [metricsInterval EXCEPT ![c] = TRUE]
  /\ timeoutId' = [timeoutId EXCEPT ![c] = "armed"]
  /\ executionDir' = [executionDir EXCEPT ![job[c]] = TRUE]
  /\ UNCHANGED <<engineVars, recordVars, calls, job, killed, signals, killTimer,
                 error, lastSubmit, shutdownPromise, persistVars, fragment, sideVars>>

\* spawn fails: the child has no handle; sampling starts and the timeout is
\* armed as for a live child, then the 'error' event, emitted on the next
\* tick before any other handler runs, clears the timeout and rejects
SpawnFails(c) ==
  /\ ~exited
  /\ pc[c] = "createEnv"
  /\ child' = [child EXCEPT ![c] = "failed"]
  /\ metricsInterval' = [metricsInterval EXCEPT ![c] = TRUE]
  /\ timeoutId' = [timeoutId EXCEPT ![c] = "cleared"]
  /\ executionDir' = [executionDir EXCEPT ![job[c]] = TRUE]
  /\ Catch(c, SpawnMessage)
  /\ UNCHANGED <<maxConcurrentTests, runningTests, isShuttingDown, exited, recordVars,
                 calls, job, killed, signals, killTimer, lastSubmit, shutdownPromise, persistVars, fragment, sideVars>>

\* the timeout timer fires: terminateProcess, then reject; the runner may
\* have written a report fragment to results.json by then (hasFragment)
Timeout(c, hasFragment) ==
  /\ ~exited
  /\ timeoutId[c] = "armed"
  /\ fragment' = [fragment EXCEPT ![c] = hasFragment]
  /\ timeoutId' = [timeoutId EXCEPT ![c] = "fired"]
  /\ signals' = TerminateSignals({c})
  /\ killed' = TerminateKilled({c})
  /\ killTimer' = TerminateTimer({c})
  /\ Catch(c, TimeoutMessage)
  /\ UNCHANGED <<maxConcurrentTests, runningTests, isShuttingDown, exited, recordVars,
                 calls, job, child, metricsInterval, lastSubmit, shutdownPromise, executionDir, persistVars, sideVars>>

\* a 'close' handler that leaves the timeout timer as it is
clearTimeoutSkipped(id) == id

\* clearTimeout(timeoutId): a timer that has not fired is cancelled
clearTimeout(id) == IF id = "armed" THEN "cleared" ELSE id

\* the runner exits and its 'close' event is handled: clearTimeout, then
\* resolve, which settles the promise only if the timeout has not rejected it
Close(c) ==
  /\ ~exited
  /\ child[c] = "alive"
  /\ child' = [child EXCEPT ![c] = "exited"]
  /\ timeoutId' = [timeoutId EXCEPT ![c] = clearTimeout(@)]
  /\ pc' = IF pc[c] = "monitoring" THEN [pc EXCEPT ![c] = "processResults"] ELSE pc
  /\ UNCHANGED <<engineVars, recordVars, calls, job, killed, signals, killTimer,
                 metricsInterval, error, lastSubmit, shutdownPromise, executionDir, persistVars, fragment, sideVars>>

\* terminateProcess's 5 s timer fires: SIGKILL only if !process.killed
KillTimerFires(c) ==
  /\ ~exited
  /\ killTimer[c] = "armed"
  /\ killTimer' = [killTimer EXCEPT ![c] = "fired"]
  /\ IF ~killed[c] /\ KillDelivers(c)
     THEN /\ signals' = [signals EXCEPT ![c] = @ \cup {"SIGKILL"}]
          /\ killed' = [killed EXCEPT ![c] = TRUE]
     ELSE UNCHANGED <<signals, killed>>
  /\ UNCHANGED <<engineVars, recordVars, calls, job, pc, child, timeoutId,
                 metricsInterval, error, lastSubmit, shutdownPromise, executionDir, persistVars, fragment, sideVars>>

\* processResults: 'failed' if some detail failed, else 'completed'
ProcessedStatus(someFailed) == IF someFailed THEN "failed" ELSE "completed"

\* processResults and persistResults return: updateExecutionStatus(id,
\* processedResults.status, undefined, new Date())
ProcessResults(c, someFailed) ==
  /\ ~exited
  /\ pc[c] = "processResults"
  /\ pc' = [pc EXCEPT ![c] = "setFinal"]
  /\ metricsDocs' = [metricsDocs EXCEPT ![job[c]] = @ + 1]
  /\ detailDocs' = [detailDocs EXCEPT ![job[c]] = @ + 1]
  /\ pending' = Issue(job[c], c, ProcessedStatus(someFailed), NoMessage)
  /\ UNCHANGED <<maxConcurrentTests, runningTests, isShuttingDown, exited, recordVars,
                 calls, job, childVars, metricsInterval, error, lastSubmit, shutdownPromise, executionDir, fragment, sideVars>>

\* persistResults throws at the save of `stage`: the documents saved before
\* it stay (metrics, then the details, then the files)
PersistFails(c, stage) ==
  /\ ~exited
  /\ pc[c] = "processResults"
  /\ metricsDocs' = [metricsDocs EXCEPT ![job[c]] = IF stage = "metrics" THEN @ ELSE @ + 1]
  /\ detailDocs' = [detailDocs EXCEPT ![job[c]] = IF stage = "files" THEN @ + 1 ELSE @]
  /\ Catch(c, PersistMessage)
  /\ UNCHANGED <<maxConcurrentTests, runningTests, isShuttingDown, exited, recordVars,
                 calls, job, childVars, metricsInterval, lastSubmit, shutdownPromise, executionDir, fragment, sideVars>>

\* the store applies the terminal write of call c (its final status, or 'failed')
SetTerminal(c) ==
  /\ ~exited
  /\ pc[c] \in {"setFinal", "setFailed"}
  /\ NextWriteBy(job[c], c)
  /\ Apply(job[c])
  /\ pc' = [pc EXCEPT ![c] = "finally"]
  /\ UNCHANGED <<maxConcurrentTests, runningTests, isShuttingDown, exited, calls, job,
                 childVars, metricsInterval, error, lastSubmit, shutdownPromise, executionDir, persistVars, fragment, sideVars>>

\* a finally block that stops the sampling but leaves the entry in the map
FinallyKeepsEntry(c) ==
  /\ ~exited
  /\ pc[c] = "finally"
  /\ metricsInterval' = [metricsInterval EXCEPT ![c] = FALSE]
  /\ pc' = [pc EXCEPT ![c] = "done"]
  /\ error' = [error EXCEPT ![c] = NoMessage]
  /\ fragment' = [fragment EXCEPT ![c] = FALSE]
  /\ UNCHANGED <<maxConcurrentTests, runningTests, isShuttingDown, pending, exited, recordVars,
                 calls, job, childVars, lastSubmit, shutdownPromise, executionDir, persistVars, sideVars>>

\* the finally block: stopResourceMonitoring(testInfo), runningTests.delete(id)
Finally(c) ==
  /\ ~exited
  /\ pc[c] = "finally"
  /\ metricsInterval' = [metricsInterval EXCEPT ![c] = FALSE]
  /\ runningTests' = [runningTests EXCEPT ![job[c]] = 0]
  /\ pc' = [pc EXCEPT ![c] = "done"]
  /\ error' = [error EXCEPT ![c] = NoMessage]
  /\ fragment' = [fragment EXCEPT ![c] = FALSE]
  /\ UNCHANGED <<maxConcurrentTests, isShuttingDown, pending, exited, recordVars,
                 calls, job, childVars, lastSubmit, shutdownPromise, executionDir, persistVars, sideVars>>

\* ---- shutdown ----

\* the calls whose testInfo the map holds
Tracked == {runningTests[j] : j \in {k \in Jobs : runningTests[k] # 0}}

\* the 'cancelled' writes of performGracefulShutdown that the store has not applied
ShutdownWrites == {j \in Jobs : \E i \in 1..Len(pending[j]) : pending[j][i].by = 0}

\* first SIGTERM/SIGINT: handleShutdown sets the flag and starts
\* performGracefulShutdown, which runs for every entry, up to its await:
\* stopResourceMonitoring, terminateProcess if testInfo.process, and
\* updateExecutionStatus(id, 'cancelled', undefined, new Date(), 'Service shutdown').
\* With no entry it returns and the process exits.
handleShutdown ==
  /\ ~exited
  /\ ~isShuttingDown
  /\ isShuttingDown' = TRUE
  /\ LET withProcess == {c \in Tracked : child[c] # "none"} IN
     /\ metricsInterval' = [c \in Calls |-> IF c \in Tracked THEN FALSE ELSE metricsInterval[c]]
     /\ signals' = TerminateSignals(withProcess)
     /\ killed' = TerminateKilled(withProcess)
     /\ killTimer' = TerminateTimer(withProcess)
  /\ pending' = [j \in Jobs |->
                   IF runningTests[j] # 0
                   THEN Append(pending[j], [by |-> 0, status |-> "cancelled", msg |-> ShutdownMessage])
                   ELSE pending[j]]
  /\ shutdownPromise' = IF Size = 0 THEN "resolved" ELSE "pending"
  /\ exited' = (Size = 0)
  /\ UNCHANGED <<maxConcurrentTests, runningTests, recordVars, calls, job, pc, child,
                 timeoutId, error, lastSubmit, executionDir, persistVars, fragment, sideVars>>

\* the store applies the 'cancelled' write of performGracefulShutdown for job j
SetCancelled(j) ==
  /\ ~exited
  /\ NextWriteBy(j, 0)
  /\ Apply(j)
  /\ UNCHANGED <<maxConcurrentTests, runningTests, isShuttingDown, exited, calls, job, pc,
                 childVars, metricsInterval, error, lastSubmit, shutdownPromise, executionDir, persistVars, fragment, sideVars>>

\* Promise.race settles, by Promise.all (every 'cancelled' write has replied)
\* or by the 10 s timer: runningTests.clear(), performGracefulShutdown
\* returns, then handleShutdown calls process.exit(0)
ShutdownCompletes(graceElapsed) ==
  /\ ~exited
  /\ isShuttingDown
  /\ graceElapsed \/ ShutdownWrites = {}
  /\ runningTests' = [j \in Jobs |-> 0]
  /\ shutdownPromise' = IF graceElapsed THEN "resolvedByTimer" ELSE "resolvedByAll"
  /\ exited' = TRUE
  /\ UNCHANGED <<maxConcurrentTests, isShuttingDown, pending, recordVars, calls, job,
                 pc, childVars, metricsInterval, error, lastSubmit, executionDir, persistVars, fragment, sideVars>>

\* a second signal while shutting down: process.exit(1)
ForcedExit ==
  /\ ~exited
  /\ isShuttingDown
  /\ exited' = TRUE
  /\ UNCHANGED <<maxConcurrentTests, runningTests, isShuttingDown, pending,
                 recordVars, calls, job, pc, childVars, metricsInterval, error, lastSubmit, shutdownPromise, executionDir, persistVars, fragment, sideVars>>

Next ==
  \/ \E j \in Jobs, valid \in Validities : executeTest(j, valid)
  \/ \E c \in Calls : SetRunning(c)
  \/ \E c \in Calls, madeDir \in BOOLEAN : CreateEnvFails(c, madeDir)
  \/ \E c \in Calls : Spawn(c)
  \/ \E c \in Calls : SpawnFails(c)
  \/ \E c \in Calls, hasFragment \in BOOLEAN : Timeout(c, hasFragment)
  \/ \E c \in Calls : Close(c)
  \/ \E c \in Calls : KillTimerFires(c)
  \/ \E c \in Calls, someFailed \in BOOLEAN : ProcessResults(c, someFailed)
  \/ \E c \in Calls, stage \in PersistStages : PersistFails(c, stage)
  \/ \E c \in Calls : SetTerminal(c)
  \/ \E c \in Calls : Finally(c)
  \/ handleShutdown
  \/ \E j \in Jobs : SetCancelled(j)
  \/ \E graceElapsed \in BOOLEAN : ShutdownCompletes(graceElapsed)
  \/ ForcedExit

Spec == Init /\ [][Next]_vars

\* ---- repository writes that fail ----

\* the calls of executeTest followed when writes may fail
MaxFaultCalls == 1

\* the findOneAndUpdate of updateExecutionStatus rejects for the write call c
\* waits for. In the try block ('running', or the final status) the catch
\* block takes the error and issues the 'failed' write; in the catch block
\* ('failed') nothing takes it: the finally block runs and executeTest rejects.
WriteFails(c) ==
  /\ ~exited
  /\ pc[c] \in {"setRunning", "setFinal", "setFailed"}
  /\ NextWriteBy(job[c], c)
  /\ IF pc[c] = "setFailed"
     THEN /\ pending' = [pending EXCEPT ![job[c]] = Tail(@)]
          /\ pc' = [pc EXCEPT ![c] = "finally"]
          /\ raised' = [raised EXCEPT ![c] = TRUE]
          /\ UNCHANGED error
     ELSE /\ pending' = [pending EXCEPT ![job[c]] =
                           Append(Tail(@), [by |-> c, status |-> "failed", msg |-> WriteMessage])]
          /\ pc' = [pc EXCEPT ![c] = "setFailed"]
          /\ error' = [error EXCEPT ![c] = WriteMessage]
          /\ UNCHANGED raised
  /\ UNCHANGED <<maxConcurrentTests, runningTests, isShuttingDown, exited, recordVars,
                 calls, job, childVars, metricsInterval, lastSubmit, shutdownPromise,
                 executionDir, persistVars, fragment, normVars, storeVars, signVars,
                 apiVars, timerVars, artifactVars>>

\* the steps the event loop, the store and the timers take for the calls in flight
Progress ==
  \/ \E c \in Calls : SetRunning(c)
  \/ \E c \in Calls, madeDir \in BOOLEAN : CreateEnvFails(c, madeDir)
  \/ \E c \in Calls : Spawn(c)
  \/ \E c \in Calls : SpawnFails(c)
  \/ \E c \in Calls, hasFragment \in BOOLEAN : Timeout(c, hasFragment)
  \/ \E c \in Calls : Close(c)
  \/ \E c \in Calls : KillTimerFires(c)
  \/ \E c \in Calls, someFailed \in BOOLEAN : ProcessResults(c, someFailed)
  \/ \E c \in Calls, stage \in PersistStages : PersistFails(c, stage)
  \/ \E c \in Calls : SetTerminal(c)
  \/ \E c \in Calls : Finally(c)
  \/ \E j \in Jobs : SetCancelled(j)
  \/ \E graceElapsed \in BOOLEAN : ShutdownCompletes(graceElapsed)

FaultNext ==
  \/ calls < MaxFaultCalls /\ \E j \in Jobs, valid \in Validities : executeTest(j, valid)
  \/ Progress
  \/ \E c \in Calls : WriteFails(c)
  \/ handleShutdown
  \/ ForcedExit

FaultSpec == Init /\ [][FaultNext]_vars

\* the event loop keeps running: a step that stays possible is taken
FairSpec == FaultSpec /\ WF_vars(Progress)

TypeOK ==
  /\ maxConcurrentTests \in 1..MaxConfigured
  /\ runningTests \in [Jobs -> 0..MaxCalls]
  /\ isShuttingDown \in BOOLEAN
  /\ pending \in [Jobs -> Seq(Writes)]
  /\ exited \in BOOLEAN
  /\ status \in [Jobs -> Statuses]
  /\ errorMessage \in [Jobs -> Messages]
  /\ calls \in 0..MaxCalls
  /\ job \in [Calls -> 0..NumJobs]
  /\ pc \in [Calls -> PcValues]
  /\ child \in [Calls -> {"none", "alive", "exited", "failed"}]
  /\ killed \in [Calls -> BOOLEAN]
  /\ signals \in [Calls -> SUBSET {"SIGTERM", "SIGKILL"}]
  /\ timeoutId \in [Calls -> {"none", "armed", "cleared", "fired"}]
  /\ killTimer \in [Calls -> {"none", "armed", "fired"}]
  /\ metricsInterval \in [Calls -> BOOLEAN]
  /\ error \in [Calls -> Messages]
  /\ lastSubmit \in Outcomes
  /\ shutdownPromise \in {"null", "pending", "resolved", "resolvedByAll", "resolvedByTimer"}
  /\ executionDir \in [Jobs -> BOOLEAN]
  /\ metricsDocs \in [Jobs -> 0..MaxCalls]
  /\ detailDocs \in [Jobs -> 0..MaxCalls]
  /\ fragment \in [Calls -> BOOLEAN]
  /\ NormIdle
  /\ StoreIdle
  /\ SignIdle
  /\ ApiIdle
  /\ FaultIdle
  /\ ArtifactIdle
  /\ TimerIdle

\* ---- result normalizer ----
\* processResults is a function of the PlaywrightExecutionResult alone; it
\* is checked on its own, for every raw result drawn from the sets below.

\* messages of the sample reports and of the captured stderr
NoError == "undefined"
ExpectMessage == "expect(received).toBe(expected)"
StderrText == "Error: browserType.launch failed"

\* one entry of test.results: the runner's status string and errors[0]?.message
Passed == [status |-> "passed", message |-> NoError]
Failed == [status |-> "failed", message |-> ExpectMessage]
Skipped == [status |-> "skipped", message |-> NoError]
TimedOut == [status |-> "timedOut", message |-> NoError]
Interrupted == [status |-> "interrupted", message |-> NoError]
\* a status in another letter case, and a result without a status: the report
\* is read with JSON.parse and a cast, so any string, or none, reaches the mapping
UpperPassed == [status |-> "PASSED", message |-> NoError]
NoStatus == [status |-> "undefined", message |-> NoError]

\* specs as the runner's JSON reporter writes them: ok, and per test (one per
\* project) the results of its attempts
SampleSpecs ==
  { [ok |-> TRUE, tests |-> << <<Passed>> >>],
    [ok |-> FALSE, tests |-> << <<Failed>> >>],
    [ok |-> TRUE, tests |-> << <<Skipped>> >>],
    [ok |-> FALSE, tests |-> << <<TimedOut>> >>],
    [ok |-> TRUE, tests |-> << <<Failed, Passed>> >>],
    [ok |-> TRUE, tests |-> << <<Passed>>, <<Passed>> >>],
    [ok |-> FALSE, tests |-> << <<Passed>>, <<Failed>> >>],
    [ok |-> FALSE, tests |-> << <<Interrupted>> >>],
    [ok |-> TRUE, tests |-> << <<UpperPassed>> >>],
    [ok |-> FALSE, tests |-> << <<NoStatus>> >>] }

\* the sequences over S of length at most n
SeqUpTo(S, n) == UNION {[1..k -> S] : k \in 0..n}

\* suites nested three deep: a file suite, a describe block, a describe
\* block inside it
InnerSuites == [specs : SeqUpTo(SampleSpecs, MaxSpecs), suites : {<<>>}]
MiddleSuites == [specs : SeqUpTo(SampleSpecs, MaxSpecs), suites : SeqUpTo(InnerSuites, MaxSuites)]
TopSuites == [specs : SeqUpTo(SampleSpecs, MaxSpecs), suites : SeqUpTo(MiddleSuites, MaxSuites)]
Reports == [suites : SeqUpTo(TopSuites, MaxSuites)]

\* PlaywrightExecutionResult: resultsJson is <<>> when undefined, else <<report>>
RawResults ==
  [exitCode : {0, 1}, stderr : {"", StderrText}, resultsJson : SeqUpTo(Reports, 1)]

\* Array.prototype.flat on an array of arrays
RECURSIVE Concat(_)
Concat(ss) == IF Len(ss) = 0 THEN <<>> ELSE Head(ss) \o Concat(Tail(ss))

\* String.prototype.toLowerCase on the status strings that occur
toLowerCase(str) ==
  CASE str = "timedOut" -> "timedout"
    [] str = "PASSED" -> "passed"
    [] OTHER -> str

\* a mapping whose default case is 'skipped'
mapPlaywrightStatusDefaultSkipped(st) ==
  IF toLowerCase(st) \in {"passed", "failed", "skipped", "pending"}
  THEN toLowerCase(st) ELSE "skipped"

mapPlaywrightStatus(st) ==
  IF toLowerCase(st) \in {"passed", "failed", "skipped", "pending"}
  THEN toLowerCase(st) ELSE "failed"

\* processSpec: one detail per result of every test of the spec
processSpec(spec) ==
  Concat([t \in 1..Len(spec.tests) |->
            [r \in 1..Len(spec.tests[t]) |->
               [status |-> mapPlaywrightStatus(spec.tests[t][r].status),
                errorMessage |-> spec.tests[t][r].message]]])

\* result.resultsJson?.suites ... || []: the specs of the top-level suites,
\* then the specs of the suites nested directly in them
FlattenedSpecs(result) ==
  IF result.resultsJson = <<>> THEN <<>>
  ELSE LET suites == result.resultsJson[1].suites IN
       Concat([i \in 1..Len(suites) |-> suites[i].specs])
         \o Concat([i \in 1..Len(suites) |->
                      Concat([k \in 1..Len(suites[i].suites) |-> suites[i].suites[k].specs])])

\* specs.filter((t) => t.ok).length
OkCount(specs) == Cardinality({i \in 1..Len(specs) : specs[i].ok})

\* testDetails.some((t) => t.status === 'failed')
SomeFailed(testDetails) == \E i \in 1..Len(testDetails) : testDetails[i].status = "failed"

processResults(result) ==
  LET specs == FlattenedSpecs(result)
      testDetails == Concat([i \in 1..Len(specs) |-> processSpec(specs[i])])
      totalTests == Len(specs)
      totalPassed == OkCount(specs)
  IN [status |-> IF SomeFailed(testDetails) THEN "failed" ELSE "completed",
      testDetails |-> testDetails,
      metrics |-> [totalTests |-> totalTests,
                   totalPassed |-> totalPassed,
                   totalFailed |-> totalTests - totalPassed,
                   totalSkipped |-> 0]]

NormInit ==
  /\ EngineInit
  /\ StoreIdle
  /\ SignIdle
  /\ ApiIdle
  /\ FaultIdle
  /\ ArtifactIdle
  /\ TimerIdle
  /\ rawResult \in RawResults
  /\ processedResults = NoResult

\* executeTest's step 3: processedResults = await this.processResults(result, executionDir)
Normalize ==
  /\ processedResults = NoResult
  /\ processedResults' = <<processResults(rawResult)>>
  /\ UNCHANGED <<exceptNorm, rawResult>>

NormNext == Normalize

NormSpec == NormInit /\ [][NormNext]_vars

NormTypeOK ==
  /\ rawResult \in RawResults
  /\ Len(processedResults) <= 1
  /\ processedResults # NoResult =>
       /\ processedResults[1].status \in {"completed", "failed"}
       /\ \A i \in 1..Len(processedResults[1].testDetails) :
            processedResults[1].testDetails[i].status \in {"passed", "failed", "skipped", "pending"}

\* ---- artifact storage: StorageService and StorageCleanupService ----

FileTypes == {"video", "screenshot", "log", "report"}

\* shouldCompress: data.length > 512 * 1024
CompressThreshold == 524288

Sizes == {CompressThreshold, CompressThreshold + 1}

\* the buffers a caller uploads
Buffers == [bytes : {"a", "b"}, size : Sizes, gz : {0}]

\* zlib.gzip and zlib.gunzip; gunzip of data without a gzip layer throws
gzip(data) == [data EXCEPT !.gz = @ + 1]
CanGunzip(data) == data.gz > 0
gunzip(data) == [data EXCEPT !.gz = @ - 1]

shouldCompress(fileType, data) ==
  \/ fileType = "log"
  \/ fileType = "report" /\ data.size > CompressThreshold

\* the execution field of an ExecutionFile is a string, the _id of an
\* Execution is an ObjectId; values of different BSON types are never equal
String(hex) == [type |-> "string", hex |-> hex]
ObjectId(hex) == [type |-> "objectId", hex |-> hex]

Range(seq) == {seq[i] : i \in 1..Len(seq)}
Ids(fs) == {fs[i].id : i \in 1..Len(fs)}
\* executionFileModel.findById
findById(fs, id) == CHOOSE f \in Range(fs) : f.id = id
\* executionFileModel.findByIdAndDelete
RECURSIVE findByIdAndDelete(_, _)
findByIdAndDelete(fs, id) ==
  IF fs = <<>> THEN <<>>
  ELSE IF Head(fs).id = id THEN findByIdAndDelete(Tail(fs), id)
       ELSE <<Head(fs)>> \o findByIdAndDelete(Tail(fs), id)
\* storageProvider.delete(key)
RemoveObject(objs, key) == {o \in objs : o.key # key}

\* a fresh document id, also the unique part of the generated storage path
NewId == 1 + Cardinality(Ids(files) \cup {o.key : o \in objects})

\* the call's form is "buffer" (dto.file is a Buffer) or "object" (dto.file is
\* { buffer, originalName, mimetype, size }); fault is the step that throws
uploadExecutionFile(execution, fileType, form, data, retention, fault) ==
  /\ NewId <= MaxUploads
  /\ LET compressed == shouldCompress(fileType, data)
         fileBuffer == IF compressed THEN gzip(data) ELSE data
         stored == form = "buffer" /\ fault # "upload"
         saved == stored /\ fault # "save"
         record == [id |-> NewId, execution |-> String(execution), fileType |-> fileType,
                    filePath |-> NewId, compressed |-> compressed,
                    expiresAt |-> IF retention THEN "future" ELSE "none"]
     IN /\ objects' = IF stored THEN objects \cup {[key |-> NewId, data |-> fileBuffer]}
                      ELSE objects
        /\ files' = IF saved THEN Append(files, record) ELSE files
        /\ lastOp' = [NoOp EXCEPT !.op = "upload", !.id = NewId, !.fileType = fileType,
                        !.input = data, !.fault = fault,
                        !.outcome = IF saved THEN "returned" ELSE "threw"]
  /\ UNCHANGED <<exceptStore, executions>>

\* a download that returns the stored bytes as they are
DecompressNever(file, data) == data

\* if (file.metadata?.compressed) data = await gunzip(data)
Decompress(file, data) == IF file.compressed THEN gunzip(data) ELSE data

downloadExecutionFile(id, fault) ==
  /\ LET found == id \in Ids(files)
         file == findById(files, id)
         here == {o \in objects : found /\ o.key = file.filePath}
         data == (CHOOSE o \in here : TRUE).data
         ok == /\ found /\ here # {} /\ fault = "none"
               /\ file.compressed => CanGunzip(data)
     IN lastOp' = [NoOp EXCEPT !.op = "download", !.id = id, !.fault = fault,
                     !.uploaded = IF lastOp.op = "upload" /\ lastOp.outcome = "returned"
                                     /\ lastOp.id = id
                                  THEN <<lastOp.input>> ELSE <<>>,
                     !.output = IF ok THEN Decompress(file, data) ELSE NoBuffer,
                     !.outcome = IF ok THEN "returned" ELSE "threw"]
  /\ UNCHANGED <<exceptStore, files, objects, executions>>

StoreNext ==
  \/ \E execution \in Jobs, fileType \in FileTypes, form \in {"buffer", "object"},
        data \in Buffers, retention \in BOOLEAN, fault \in {"none", "upload", "save"} :
       uploadExecutionFile(execution, fileType, form, data, retention, fault)
  \/ \E id \in 1..MaxUploads, fault \in {"none", "download"} : downloadExecutionFile(id, fault)

StoreSpec == Init /\ [][StoreNext]_vars

\* a store as uploads leave it: up to MaxFiles documents, each with its object
StoredFile(id, execution, expiresAt) ==
  [id |-> id, execution |-> String(execution), fileType |-> "log", filePath |-> id,
   compressed |-> TRUE, expiresAt |-> expiresAt]

Stores ==
  UNION {[1..n -> Jobs \X {"none", "future", "past"}] : n \in 0..MaxFiles}

CleanupInit ==
  /\ EngineInit
  /\ NormIdle
  /\ SignIdle
  /\ ApiIdle
  /\ FaultIdle
  /\ ArtifactIdle
  /\ TimerIdle
  /\ \E st \in Stores :
       /\ files = [i \in DOMAIN st |-> StoredFile(i, st[i][1], st[i][2])]
       /\ objects = {[key |-> i, data |-> gzip([bytes |-> "a", size |-> CompressThreshold, gz |-> 0])] :
                       i \in DOMAIN st}
  /\ executions \in SUBSET {ObjectId(j) : j \in Jobs}
  /\ lastOp = NoOp

\* deleteExecutionFile on a store st = [files, objects], where the storage
\* provider's delete throws for the ids in storageFailing and findByIdAndDelete
\* throws for the ids in failing; threw tells whether the call threw
deleteExecutionFile(st, id, storageFailing, failing) ==
  IF id \notin Ids(st.files) THEN [st EXCEPT !.threw = TRUE]
  ELSE LET file == findById(st.files, id)
           objs == IF id \in storageFailing THEN st.objects
                   ELSE RemoveObject(st.objects, file.filePath)
       IN IF id \in failing
          THEN [files |-> st.files, objects |-> objs, threw |-> TRUE]
          ELSE [files |-> findByIdAndDelete(st.files, id), objects |-> objs, threw |-> FALSE]

\* for (const file of batch) { try { await deleteExecutionFile(id) } catch { log } }
RECURSIVE DeleteEach(_, _, _, _)
DeleteEach(st, batch, storageFailing, failing) ==
  IF batch = <<>> THEN st
  ELSE DeleteEach(deleteExecutionFile(st, Head(batch), storageFailing, failing),
                  Tail(batch), storageFailing, failing)

\* a loop without the try around each file: it ends at the first failure
DeleteUntilFailure(st, batch, storageFailing, failing) ==
  LET stop == {i \in 1..Len(batch) : batch[i] \in failing}
      last == IF stop = {} THEN Len(batch)
              ELSE CHOOSE i \in stop : \A k \in stop : i <= k
  IN DeleteEach(st, SubSeq(batch, 1, last), storageFailing, failing)

ProcessBatch(st, batch, storageFailing, failing) ==
  DeleteEach(st, batch, storageFailing, failing)

\* the ids of the first limit documents of fs that satisfy the query
RECURSIVE Limit(_, _, _)
Limit(fs, matching, limit) ==
  IF fs = <<>> \/ limit = 0 THEN <<>>
  ELSE IF Head(fs).id \in matching
       THEN <<Head(fs).id>> \o Limit(Tail(fs), matching, limit - 1)
       ELSE Limit(Tail(fs), matching, limit)

\* find({ expiresAt: { $lt: new Date() } }).limit(...)
ExpiredBatch ==
  Limit(files, {f.id : f \in {g \in Range(files) : g.expiresAt = "past"}}, ExpiredLimit)

\* $lookup of the file's execution in executions by _id, $match of an empty
\* executionDoc, $limit
OrphanBatch ==
  Limit(files,
        {f.id : f \in {g \in Range(files) : {e \in executions : e = g.execution} = {}}},
        OrphanLimit)

Cleanup(op, batch, storageFailing, failing, queryFails, outcome) ==
  LET st == IF queryFails THEN [files |-> files, objects |-> objects, threw |-> FALSE]
            ELSE ProcessBatch([files |-> files, objects |-> objects, threw |-> FALSE],
                              batch, storageFailing, failing)
  IN /\ files' = st.files
     /\ objects' = st.objects
     /\ lastOp' = [NoOp EXCEPT !.op = op, !.batch = IF queryFails THEN <<>> ELSE batch,
                     !.failing = IF queryFails THEN {} ELSE failing \cap Range(batch),
                     !.fault = IF queryFails THEN "query" ELSE "none",
                     !.outcome = outcome]
     /\ UNCHANGED <<exceptStore, executions>>

\* the find and the loop are inside the method's try: it always returns
cleanupExpiredFiles(storageFailing, failing, queryFails) ==
  Cleanup("cleanupExpired", ExpiredBatch, storageFailing, failing, queryFails, "returned")

\* the aggregate is outside any try: the method throws when it fails
cleanupOrphanedFiles(storageFailing, failing, queryFails) ==
  Cleanup("cleanupOrphaned", OrphanBatch, storageFailing, failing, queryFails,
          IF queryFails THEN "threw" ELSE "returned")

CleanupNext ==
  \/ \E storageFailing, failing \in SUBSET Range(ExpiredBatch), queryFails \in BOOLEAN :
       cleanupExpiredFiles(storageFailing, failing, queryFails)
  \/ \E storageFailing, failing \in SUBSET Range(OrphanBatch), queryFails \in BOOLEAN :
       cleanupOrphanedFiles(storageFailing, failing, queryFails)

CleanupSpec == CleanupInit /\ [][CleanupNext]_vars

\* ---- properties ----

\* a step of executeTest: the only action that changes lastSubmit or calls
SubmitStep == lastSubmit' # lastSubmit \/ calls' # calls

\* a call that executeTest has admitted and that has not returned
InFlight(c) == pc[c] \notin {"idle", "done"}

\* C1: a submit of a validated Execution made while the number of tracked
\* jobs equals the maximum fails with CapacityExceeded, adds no tracking
\* entry, starts no call, issues no status write and leaves every
\* Execution's status as it was.
C1_CapacityExceeded ==
  [][(SubmitStep /\ Size = maxConcurrentTests /\ lastSubmit' # "ValidationFailure")
       => (lastSubmit' = "CapacityExceeded" /\ UNCHANGED <<runningTests, calls, pc, status, pending>>)]_vars

C1_Witness ==
  /\ lastSubmit = "CapacityExceeded"
  /\ Size = maxConcurrentTests
  /\ \E c \in Calls : pc[c] = "monitoring"

\* C2: in every reachable state the in-flight map holds at most
\* maxConcurrentTests entries.
C2_SizeBounded == Size <= maxConcurrentTests

C2_Witness ==
  /\ Size = maxConcurrentTests
  /\ maxConcurrentTests = 2
  /\ \A c \in Calls : InFlight(c)

\* C3: no job id is processed by two executeTest calls at once: while a call
\* for an id is in flight, a submit of the same id starts no second call.
C3_NoDuplicateProcessing ==
  \A c1, c2 \in Calls :
    (c1 # c2 /\ InFlight(c1) /\ InFlight(c2)) => job[c1] # job[c2]

\* a step in which the store applies a terminal-status write to job j: the
\* final or 'failed' write of a call, or the 'cancelled' write of shutdown
TerminalWriteStep(j) ==
  /\ pending[j] # <<>>
  /\ Head(pending[j]).status \in Terminal
  /\ pending'[j] = Tail(pending[j])

\* C4: exactly one terminal-status write takes effect per job: a terminal
\* write that reaches an Execution whose status is already terminal is a
\* no-op that leaves status and errorMessage unchanged.
C4_TerminalWriteOnce ==
  [][\A j \in Jobs :
       (status[j] \in Terminal /\ TerminalWriteStep(j))
         => (status'[j] = status[j] /\ errorMessage'[j] = errorMessage[j])]_vars

\* C5: a job that shutdown has marked cancelled with the shutdown message
\* keeps the status cancelled in every later state.
C5_CancelledStays ==
  [][\A j \in Jobs :
       (isShuttingDown /\ status[j] = "cancelled" /\ errorMessage[j] = ShutdownMessage)
         => status'[j] = "cancelled"]_vars

\* C6: when executeTest returns for a run that the timeout rejected, the
\* Execution is in status failed with the timeout message.
C6_TimeoutEndsFailed ==
  \A c \in Calls :
    (pc[c] = "finally" /\ error[c] = TimeoutMessage)
      => (status[job[c]] = "failed" /\ errorMessage[job[c]] = TimeoutMessage)

\* C7: a runner that is still alive when the 5 s window of terminateProcess
\* has ended has been sent SIGKILL, and SIGKILL is only ever sent after SIGTERM.
C7_ForcefulKillAfterGrace ==
  \A c \in Calls :
    /\ (killTimer[c] = "fired" /\ child[c] = "alive") => "SIGKILL" \in signals[c]
    /\ "SIGKILL" \in signals[c] => "SIGTERM" \in signals[c]

\* C8: a terminal status is written only over running, running is written
\* only over queued, and no write sets a status back to queued.
C8_TransitionsOrdered ==
  [][\A j \in Jobs :
       /\ (status'[j] # status[j] /\ status'[j] \in Terminal) => status[j] = "running"
       /\ (status'[j] # status[j] /\ status'[j] = "running") => status[j] = "queued"
       /\ status'[j] = "queued" => status[j] = "queued"]_vars

\* C9: once an Execution's status is completed, failed or cancelled it
\* never changes again.
C9_TerminalIsFinal ==
  [][\A j \in Jobs : status[j] \in Terminal => status'[j] = status[j]]_vars

\* C10: after shutdown has been initiated, every submit of a validated
\* Execution fails with ServiceUnavailable, whatever the number of tracked
\* jobs, adds no tracking entry and starts no call.
C10_ShutdownRejects ==
  [][(SubmitStep /\ isShuttingDown /\ lastSubmit' # "ValidationFailure")
       => (lastSubmit' = "ServiceUnavailable" /\ UNCHANGED <<runningTests, calls, pc, child, pending>>)]_vars

\* C10 (amended): after shutdown has been initiated, every submit of a
\* validated Execution fails, adds no tracking entry and starts no call; it
\* fails with ServiceUnavailable while the pool is below its maximum and
\* with CapacityExceeded while the pool is full.
C10_ShutdownRejectsAmended ==
  [][(SubmitStep /\ isShuttingDown /\ lastSubmit' # "ValidationFailure")
       => /\ lastSubmit' = IF Size >= maxConcurrentTests THEN "CapacityExceeded"
                           ELSE "ServiceUnavailable"
          /\ UNCHANGED <<runningTests, calls, pc, child, pending>>]_vars

C10_Witness ==
  /\ lastSubmit = "ServiceUnavailable"
  /\ isShuttingDown
  /\ ~exited
  /\ Size = 1

\* C11: shutdown returns only when every runner whose termination was
\* requested has exited, or when the 10 s grace period has elapsed: when
\* performGracefulShutdown returns before the grace timer fires, no runner
\* that was sent a termination request is still alive.
C11_ShutdownAwaitsTerminations ==
  [][(shutdownPromise = "pending" /\ shutdownPromise' = "resolvedByAll")
       => \A c \in Calls : killTimer[c] # "none" => child[c] # "alive"]_vars

\* C12: when executeTest returns for an admitted job, after a normal
\* completion or after any failure, the in-flight map holds no entry for
\* that job id.
C12_EntryRemovedOnReturn ==
  [][\A c \in Calls :
       (pc[c] = "finally" /\ pc'[c] = "done") => runningTests'[job[c]] = 0]_vars

C12_Witness ==
  \E c1, c2 \in Calls :
    /\ pc[c1] = "done" /\ status[job[c1]] = "completed" /\ runningTests[job[c1]] = 0
    /\ pc[c2] = "done" /\ status[job[c2]] = "failed" /\ runningTests[job[c2]] = 0
    /\ ~isShuttingDown

\* C13: with a maximum of 1, a submit made while the first job is tracked
\* and running is rejected with CapacityExceeded, and a submit made at any
\* time after the first job has reached a terminal status, with no shutdown
\* in progress, is accepted.
C13_AcceptedAfterTerminal ==
  [][(SubmitStep /\ maxConcurrentTests = 1 /\ calls = 1 /\ ~isShuttingDown
        /\ lastSubmit' # "ValidationFailure")
       => /\ (runningTests[job[1]] # 0 /\ status[job[1]] = "running")
               => lastSubmit' = "CapacityExceeded"
          /\ status[job[1]] \in Terminal => lastSubmit' = "accepted"]_vars

\* C14: when a job's processing completes, on success and on failure alike,
\* its sandbox directory is removed, and the directory is not removed while
\* a call is still processing that job.
C14_SandboxRemoved ==
  [][\A c \in Calls :
       /\ (pc[c] = "finally" /\ pc'[c] = "done") => ~executionDir'[job[c]]
       /\ (job[c] # 0 /\ executionDir[job[c]] /\ ~executionDir'[job[c]])
            => pc'[c] \in {"idle", "done"}]_vars

\* C15: while the engine runs, a call whose job id has no tracking entry
\* has no active resource-sampling timer.
C15_NoTimerWithoutEntry ==
  ~exited =>
    \A c \in Calls :
      (job[c] # 0 /\ runningTests[job[c]] = 0) => ~metricsInterval[c]

\* C16: when the runner cannot be spawned, no timeout timer is started for
\* the call, and when executeTest returns the Execution is in status failed
\* with the spawn error as its error message.
C16_SpawnFailure ==
  \A c \in Calls :
    child[c] = "failed"
      => /\ timeoutId[c] = "none"
         /\ pc[c] = "finally"
              => (status[job[c]] = "failed" /\ errorMessage[job[c]] = SpawnMessage)

\* C17: when environment provisioning fails for a call, no runner process is
\* spawned for it, and when executeTest returns the Execution is in status
\* failed with the provisioning error as its error message.
C17_ProvisioningFailure ==
  \A c \in Calls :
    error[c] = EnvMessage
      => /\ child[c] = "none"
         /\ pc[c] = "finally"
              => (status[job[c]] = "failed" /\ errorMessage[job[c]] = EnvMessage)

\* the run has been normalized without a structured report
NoReportNormalized == processedResults # NoResult /\ rawResult.resultsJson = <<>>

\* C18: when no structured report can be produced, normalization yields
\* exactly one detail: passed if the exit code is 0, and failed with the
\* captured stderr as its error message if the exit code is nonzero.
C18_SyntheticDetail ==
  NoReportNormalized =>
    LET details == processedResults[1].testDetails IN
    /\ Len(details) = 1
    /\ rawResult.exitCode = 0 => details[1].status = "passed"
    /\ rawResult.exitCode # 0 =>
         (details[1].status = "failed" /\ details[1].errorMessage = rawResult.stderr)

\* C19: the status returned for the run is failed if at least one detail
\* has outcome failed and completed otherwise; a run that exits nonzero
\* without a report gets the status failed.
C19_StatusFromDetails ==
  processedResults # NoResult =>
    /\ processedResults[1].status =
         (IF \E i \in 1..Len(processedResults[1].testDetails) :
               processedResults[1].testDetails[i].status = "failed"
          THEN "failed" ELSE "completed")
    /\ (rawResult.resultsJson = <<>> /\ rawResult.exitCode # 0)
         => processedResults[1].status = "failed"

\* the number of details of processedResults with the outcome st
DetailsWith(st) ==
  Cardinality({i \in 1..Len(processedResults[1].testDetails) :
                 processedResults[1].testDetails[i].status = st})

\* C20: the counts of the metrics are the counts of the details: totalTests
\* is the number of details, and totalPassed, totalFailed and totalSkipped
\* are the numbers of details with outcome passed, failed and skipped.
C20_CountsFromDetails ==
  processedResults # NoResult =>
    LET m == processedResults[1].metrics IN
    /\ m.totalTests = Len(processedResults[1].testDetails)
    /\ m.totalPassed = DetailsWith("passed")
    /\ m.totalFailed = DetailsWith("failed")
    /\ m.totalSkipped = DetailsWith("skipped")

\* the specs of a suite and of every suite nested in it, at any depth, in
\* the order of the report
RECURSIVE DeepSpecs(_)
DeepSpecs(suite) ==
  suite.specs \o Concat([k \in 1..Len(suite.suites) |-> DeepSpecs(suite.suites[k])])

\* the run has been normalized from a structured report
ReportNormalized == processedResults # NoResult /\ rawResult.resultsJson # <<>>

\* C21: with a structured report, the details are the outcomes of every
\* result of every test of every spec, at every nesting depth, in the order
\* of the report.
C21_AllDepthsFlattened ==
  ReportNormalized =>
    LET suites == rawResult.resultsJson[1].suites
        all == Concat([i \in 1..Len(suites) |-> DeepSpecs(suites[i])])
    IN processedResults[1].testDetails = Concat([i \in 1..Len(all) |-> processSpec(all[i])])

\* the status strings of the results that processResults turned into details, in order
InputStatuses ==
  LET specs == FlattenedSpecs(rawResult) IN
  Concat([i \in 1..Len(specs) |->
            Concat([t \in 1..Len(specs[i].tests) |->
                      [r \in 1..Len(specs[i].tests[t]) |-> specs[i].tests[t][r].status]])])

Canonical == {"passed", "failed", "skipped", "pending"}

\* C22: every status string maps to one of passed, failed, skipped,
\* pending: these four map to themselves and every other value, a missing
\* status included, maps to failed.
C22_StatusMapping ==
  ReportNormalized =>
    \A i \in 1..Len(InputStatuses) :
      processedResults[1].testDetails[i].status =
        (IF InputStatuses[i] \in Canonical THEN InputStatuses[i] ELSE "failed")

\* C22 (amended): every status string maps to one of passed, failed,
\* skipped, pending: these four map to themselves, a value that differs from
\* one of them only in letter case maps to that one, and every other value,
\* a missing status included, maps to failed.
C22_StatusMappingAmended ==
  ReportNormalized =>
    \A i \in 1..Len(InputStatuses) :
      LET st == InputStatuses[i]
          out == processedResults[1].testDetails[i].status
      IN /\ out \in Canonical
         /\ st \in Canonical => out = st
         /\ st = "PASSED" => out = "passed"
         /\ st \in {"timedOut", "interrupted", "undefined"} => out = "failed"

C22_Witness ==
  /\ ReportNormalized
  /\ \E i, k \in 1..Len(InputStatuses) :
       /\ InputStatuses[i] = "PASSED" /\ processedResults[1].testDetails[i].status = "passed"
       /\ InputStatuses[k] = "interrupted" /\ processedResults[1].testDetails[k].status = "failed"

\* C23: every Execution in status failed carries an error message.
C23_FailedHasMessage ==
  \A j \in Jobs : status[j] = "failed" => errorMessage[j] # NoMessage

\* C24: when executeTest returns after a timeout that found a report
\* fragment, details and metrics of the job have been persisted.
C24_PartialResultsPersisted ==
  \A c \in Calls :
    (pc[c] = "finally" /\ error[c] = TimeoutMessage /\ fragment[c])
      => (detailDocs[job[c]] > 0 /\ metricsDocs[job[c]] > 0)

\* C25: when the save of an artifact record fails in persistResults, the
\* Execution is in status failed with the error message when executeTest
\* returns, and no step ever removes a metrics or detail document.
C25_PersistFailureSurfaced ==
  [][/\ \A c \in Calls :
          (pc[c] = "finally" /\ pc'[c] = "done" /\ error[c] = PersistMessage
             /\ detailDocs[job[c]] > 0)
            => (status[job[c]] = "failed" /\ errorMessage[job[c]] = PersistMessage)
     /\ \A j \in Jobs : metricsDocs'[j] >= metricsDocs[j] /\ detailDocs'[j] >= detailDocs[j]]_vars

\* C26: at most one ExecutionMetrics document is ever created for an
\* Execution, and it is created only when the Execution's status is terminal.
C26_MetricsOnceAfterTerminal ==
  [][\A j \in Jobs :
       metricsDocs'[j] # metricsDocs[j]
         => (metricsDocs[j] = 0 /\ metricsDocs'[j] = 1 /\ status[j] \in Terminal)]_vars

\* C27: a download of the file that the preceding upload returned yields
\* the bytes that were uploaded, compressed or not, unless the storage
\* provider fails.
C27_RoundTrip ==
  (lastOp.op = "download" /\ lastOp.uploaded # <<>> /\ lastOp.fault = "none")
    => (lastOp.outcome = "returned" /\ lastOp.output = lastOp.uploaded[1])

C27_Witness ==
  /\ lastOp.op = "download" /\ lastOp.uploaded # <<>> /\ lastOp.outcome = "returned"
  /\ findById(files, lastOp.id).compressed
  /\ lastOp.output = lastOp.uploaded[1]

\* C28: an uploaded log is compressed, an upload of any other type is
\* compressed exactly when its size exceeds 512 KB, and the record's
\* compressed flag tells whether the stored bytes are compressed.
C28_CompressionPolicy ==
  (lastOp.op = "upload" /\ lastOp.outcome = "returned") =>
    LET file == findById(files, lastOp.id)
        object == CHOOSE o \in objects : o.key = file.filePath
    IN /\ file.compressed = (lastOp.fileType = "log" \/ lastOp.input.size > CompressThreshold)
       /\ file.compressed = (object.data.gz > 0)

\* C29: a run of cleanupExpiredFiles right after another deletes nothing
\* more, when no delete and no query fails in either.
C29_CleanupIdempotent ==
  [][(/\ lastOp.op = "cleanupExpired" /\ lastOp.fault = "none" /\ lastOp.failing = {}
      /\ lastOp'.op = "cleanupExpired" /\ lastOp'.fault = "none" /\ lastOp'.failing = {})
       => files' = files]_vars

\* C30: a cleanup whose query succeeded returns normally, the files of its
\* batch whose deletion failed remain, and every other file of the batch has
\* been deleted.
C30_FailureSkipped ==
  (lastOp.op \in {"cleanupExpired", "cleanupOrphaned"} /\ lastOp.fault = "none") =>
    /\ lastOp.outcome = "returned"
    /\ \A i \in 1..Len(lastOp.batch) :
         (lastOp.batch[i] \in Ids(files)) <=> (lastOp.batch[i] \in lastOp.failing)

C30_Witness ==
  /\ lastOp.op = "cleanupExpired" /\ lastOp.outcome = "returned"
  /\ Len(lastOp.batch) = 2
  /\ lastOp.batch[1] \in lastOp.failing /\ lastOp.batch[1] \in Ids(files)
  /\ lastOp.batch[2] \notin Ids(files)

\* ---- signed URLs of the filesystem provider ----
\* Strings are sequences of characters.

DigitChars == <<"0", "1", "2", "3", "4", "5", "6", "7", "8", "9">>
IsDigit(ch) == \E d \in 1..10 : DigitChars[d] = ch
DigitValue(ch) == (CHOOSE d \in 1..10 : DigitChars[d] = ch) - 1

\* Number.prototype.toString of a non-negative integer
RECURSIVE toString(_)
toString(n) ==
  IF n < 10 THEN <<DigitChars[n + 1]>>
  ELSE toString(n \div 10) \o <<DigitChars[(n % 10) + 1]>>

\* parseInt(str, 10): the number written by the leading digits, NaN when
\* there is none
NaN == -1
RECURSIVE ParseDigits(_, _)
ParseDigits(str, acc) ==
  IF str = <<>> \/ ~IsDigit(Head(str)) THEN acc
  ELSE ParseDigits(Tail(str), acc * 10 + DigitValue(Head(str)))
parseInt(str) ==
  IF str = <<>> \/ ~IsDigit(Head(str)) THEN NaN ELSE ParseDigits(str, 0)

\* crypto.createHmac('sha256', secretKey).update(tokenData).digest('hex'):
\* distinct data have distinct digests
createHmac(tokenData) == <<"#">> \o tokenData
\* a token that is no digest
Forged == <<"f">>

\* `${key}:${expires}`
TokenData(key, expires) == key \o <<":">> \o expires

\* the keys of the stored files
SignKeys == { <<"a">>, <<"a", ":", "b">>, <<"a", ":", "1">> }

\* the expires parameters presented to validateSignedUrl: the decimal
\* timestamps, and each of them behind the part of a key that follows a colon
Timestamps == {toString(n) : n \in 0..(MaxTime + MaxExpiresIn)}
KeyTails ==
  UNION {{SubSeq(k, i + 1, Len(k)) : i \in {n \in 1..(Len(k) - 1) : k[n] = ":"}} : k \in SignKeys}
ExpiresInputs ==
  Timestamps \cup {t \o <<":">> \o d : t \in KeyTails, d \in Timestamps}

getSignedUrl(key, expiresIn) ==
  /\ Cardinality(issued) < MaxIssued
  /\ LET expires == now + expiresIn
     IN issued' = issued \cup {[key |-> key, expires |-> toString(expires),
                                token |-> createHmac(TokenData(key, toString(expires)))]}
  /\ UNCHANGED <<exceptSign, now, lastValidate>>

\* the clock advances
Tick ==
  /\ now < MaxTime
  /\ now' = now + 1
  /\ UNCHANGED <<exceptSign, issued, lastValidate>>

validateSignedUrl(key, token, expires) ==
  /\ LET expiresTimestamp == parseInt(expires)
         result == IF expiresTimestamp # NaN /\ now > expiresTimestamp THEN FALSE
                   ELSE token = createHmac(TokenData(key, expires))
     IN lastValidate' = [key |-> key, token |-> token, expires |-> expires,
                         at |-> now, result |-> result]
  /\ UNCHANGED <<exceptSign, now, issued>>

SignNext ==
  \/ \E key \in SignKeys, expiresIn \in 1..MaxExpiresIn : getSignedUrl(key, expiresIn)
  \/ Tick
  \/ \E key \in SignKeys, token \in {u.token : u \in issued} \cup {Forged},
        expires \in ExpiresInputs : validateSignedUrl(key, token, expires)

SignSpec == Init /\ [][SignNext]_vars

\* ---- the timeout of a job: readTimeout, getTimeout and the timer of executeWithMonitoring ----

\* config.testTimeout, in ms
testTimeout == 60000
\* the buffer added to the timeout, in ms
TimeoutBuffer == 5000
\* the longest delay of a Node.js timer, 2^31 - 1 ms
TIMEOUT_MAX == 2147483647

\* String.prototype.trim
RECURSIVE TrimStart(_)
TrimStart(str) == IF str # <<>> /\ Head(str) = " " THEN TrimStart(Tail(str)) ELSE str
RECURSIVE TrimEnd(_)
TrimEnd(str) ==
  IF str # <<>> /\ str[Len(str)] = " " THEN TrimEnd(SubSeq(str, 1, Len(str) - 1)) ELSE str
trim(str) == TrimEnd(TrimStart(str))

AllDigits(str) == \A i \in 1..Len(str) : IsDigit(str[i])

\* Number(str) of a trimmed string: <<n>>, or <<>> for NaN
Number(str) ==
  CASE str = <<>> -> <<0>>
    [] AllDigits(str) -> <<ParseDigits(str, 0)>>
    [] Head(str) = "-" /\ Len(str) > 1 /\ AllDigits(Tail(str)) -> <<0 - ParseDigits(Tail(str), 0)>>
    [] OTHER -> <<>>

\* the values of executionConfig.timeout: no such property, a number, NaN,
\* Infinity, a string, a boolean
ConfigStrings == UNION {[1..n -> {" ", "0", "6", "a", "-"}] : n \in 0..MaxStrLen}
Configs ==
  {[type |-> t, num |-> 0, str |-> <<>>] : t \in {"absent", "NaN", "Infinity", "boolean"}}
    \cup {[type |-> "number", num |-> n, str |-> <<>>] :
            n \in {0 - 1, 0, 1, 30000, TIMEOUT_MAX - TimeoutBuffer,
                   TIMEOUT_MAX - TimeoutBuffer + 1, TIMEOUT_MAX}}
    \cup {[type |-> "string", num |-> 0, str |-> str] : str \in ConfigStrings}

\* <<n>>, or <<>> for undefined
readTimeout(obj) ==
  CASE obj.type = "absent" -> <<>>
    [] obj.type = "number" /\ obj.num > 0 -> <<obj.num>>
    [] obj.type = "string" ->
         LET n == Number(trim(obj.str)) IN IF n # <<>> /\ n[1] > 0 THEN n ELSE <<>>
    [] OTHER -> <<>>

getTimeout(obj) == IF readTimeout(obj) # <<>> THEN readTimeout(obj)[1] ELSE testTimeout

\* the delay a Node.js timer runs with: 1 when the delay asked for is not
\* between 1 and TIMEOUT_MAX. The delay asked for is timeout + TimeoutBuffer.
setTimeout(timeout) ==
  IF timeout > TIMEOUT_MAX - TimeoutBuffer THEN 1 ELSE timeout + TimeoutBuffer

TimerInit ==
  /\ EngineInit
  /\ NormIdle
  /\ StoreIdle
  /\ SignIdle
  /\ ApiIdle
  /\ FaultIdle
  /\ ArtifactIdle
  /\ executionConfig \in Configs
  /\ timerDelay = 0

\* const timeout = this.getTimeout(execution) + 5_000; setTimeout(..., timeout)
ArmTimeout ==
  /\ timerDelay = 0
  /\ timerDelay' = setTimeout(getTimeout(executionConfig))
  /\ UNCHANGED <<exceptTimer, executionConfig>>

TimerNext == ArmTimeout

TimerSpec == TimerInit /\ [][TimerNext]_vars

\* ---- the artifact list of processResults: attachments, then scanForArtifacts ----

\* paths under the results folder: a base name and an extension
ArtifactPaths ==
  {[base |-> "shot", ext |-> ".PNG"], [base |-> "video", ext |-> ".webm"],
   [base |-> "run", ext |-> ".log"], [base |-> "results", ext |-> ".json"]}

\* path.extname(entryPath).toLowerCase()
extLower(ext) == IF ext = ".PNG" THEN ".png" ELSE ext

\* the file record scanForArtifacts builds for an entry
ScannedFile(path) ==
  LET ext == extLower(path.ext)
  IN [filePath |-> path,
      fileType |-> CASE ext \in {".png", ".jpg", ".jpeg"} -> "screenshot"
                     [] ext \in {".webm", ".mp4"} -> "video"
                     [] ext \in {".log", ".txt"} -> "log"
                     [] OTHER -> "report"]

\* the loop over the entries: a file record for each entry that stat shows
\* to be a file
RECURSIVE ScanEntries(_)
ScanEntries(entries) ==
  IF entries = <<>> THEN <<>>
  ELSE (IF Head(entries).isFile THEN <<ScannedFile(Head(entries).path)>> ELSE <<>>)
         \o ScanEntries(Tail(entries))

\* scanForArtifacts: no file when readdir throws
scanForArtifacts(dir) == IF dir.readable THEN ScanEntries(dir.entries) ELSE <<>>

\* a merge that adds every scanned file
MergeAll(fs, additionalFiles) == fs \o additionalFiles

\* additionalFiles.forEach(file => { if (!files.find(f => f.filePath === file.filePath)) files.push(file) })
RECURSIVE MergeFiles(_, _)
MergeFiles(fs, additionalFiles) ==
  IF additionalFiles = <<>> THEN fs
  ELSE MergeFiles(IF \E i \in 1..Len(fs) : fs[i].filePath = Head(additionalFiles).filePath
                  THEN fs ELSE Append(fs, Head(additionalFiles)),
                  Tail(additionalFiles))

\* the files listed from attachments: any path, with the type getFileType gave
AttachmentFiles == [filePath : ArtifactPaths, fileType : {"screenshot", "report"}]

\* folders: entries with distinct paths, each a file or not
Folders ==
  {e \in UNION {[1..n -> [path : ArtifactPaths, isFile : BOOLEAN]] : n \in 0..MaxEntries} :
     \A i, k \in DOMAIN e : i # k => e[i].path # e[k].path}

ArtifactInit ==
  /\ EngineInit
  /\ NormIdle
  /\ StoreIdle
  /\ SignIdle
  /\ ApiIdle
  /\ FaultIdle
  /\ TimerIdle
  /\ reportFiles \in UNION {[1..n -> AttachmentFiles] : n \in 0..MaxAttachments}
  /\ resultsDir \in [readable : BOOLEAN, entries : Folders]
  /\ artifactFiles = <<>>

\* processResults, from the scan on: the scanned files are merged into the list
CollectFiles ==
  /\ artifactFiles = <<>>
  /\ artifactFiles' = <<MergeFiles(reportFiles, scanForArtifacts(resultsDir))>>
  /\ UNCHANGED <<exceptArtifact, reportFiles, resultsDir>>

ArtifactNext == CollectFiles

ArtifactSpec == ArtifactInit /\ [][ArtifactNext]_vars

\* ---- the HTTP layer: ExecutionController.executeTest and ExecutionsService.enqueueExecution ----

\* a new document id
NewExecutionId == Len(executionDocs) + 1

\* the submission is validated and the Execution is saved with status
\* 'queued': await new this.executionModel({..., status: 'queued'}).save()
SaveExecution(r, valid, fault) ==
  /\ requests[r].pc = "idle"
  /\ LET ok == valid /\ fault # "save"
     IN /\ executionDocs' = IF ok THEN Append(executionDocs, [id |-> NewExecutionId,
                                                                status |-> "queued"])
                           ELSE executionDocs
        /\ requests' = [requests EXCEPT ![r] =
                          [NoRequest EXCEPT !.pc = IF ok THEN "saved" ELSE "done",
                                            !.valid = valid, !.fault = fault,
                                            !.id = IF ok THEN NewExecutionId ELSE 0]]
  /\ UNCHANGED <<exceptApi, queue>>

\* a handler that adds the job twice
AddJobTwice(q, id) == q \o <<[name |-> "execute-test", execution |-> id],
                            [name |-> "execute-test", execution |-> id]>>

\* this.executionQueue.add('execute-test', { execution: execution.toObject(...) })
AddJob(q, id) == Append(q, [name |-> "execute-test", execution |-> id])

\* the job is added to the queue and the response is returned; when add
\* throws, the error response is returned instead
EnqueueJob(r) ==
  /\ requests[r].pc = "saved"
  /\ LET ok == requests[r].fault # "add"
     IN /\ queue' = IF ok THEN AddJob(queue, requests[r].id) ELSE queue
        /\ requests' = [requests EXCEPT ![r].pc = "done",
                          ![r].response = IF ok
                                          THEN [success |-> TRUE, id |-> requests[r].id,
                                                status |-> "queued"]
                                          ELSE NoRequest.response]
  /\ UNCHANGED <<exceptApi, executionDocs>>

ApiNext ==
  \/ \E r \in 1..MaxRequests, valid \in BOOLEAN, fault \in {"none", "save", "add"} :
       SaveExecution(r, valid, fault)
  \/ \E r \in 1..MaxRequests : EnqueueJob(r)

ApiSpec == Init /\ [][ApiNext]_vars

\* ---- properties, continued ----

\* the file's execution field names an Execution that exists
OwnerExists(file) == \E e \in executions : e.hex = file.execution.hex

\* C31: cleanupOrphanedFiles never deletes a file whose execution field
\* names an existing Execution, and a sweep of a store without orphans
\* deletes nothing.
C31_OrphanSweepSafe ==
  [][lastOp'.op = "cleanupOrphaned" =>
       \A f \in Range(files) : OwnerExists(f) => f \in Range(files')]_vars

\* C32: validateSignedUrl accepts a request exactly when its token is the
\* one getSignedUrl issued for the same key and the same expiry, and the
\* clock has not passed that expiry.
C32_SignedUrlValidation ==
  lastValidate # NoValidate =>
    (lastValidate.result <=>
       \E u \in issued :
         /\ u.key = lastValidate.key /\ u.expires = lastValidate.expires
         /\ u.token = lastValidate.token
         /\ lastValidate.at <= parseInt(u.expires))

\* the jobs in q for the Execution id
JobsFor(q, id) == {i \in 1..Len(q) : q[i].execution = id}

C34_ArmedWithEffectiveTimeout ==
  timerDelay # 0 =>
    timerDelay = (IF readTimeout(executionConfig) # <<>>
                  THEN readTimeout(executionConfig)[1] ELSE testTimeout)

\* how many records of the list fs have the path
PathCount(fs, path) == Cardinality({i \in 1..Len(fs) : fs[i].filePath = path})

\* C35: the file list keeps the files listed from the report, has every
\* file the scan found whose path was not listed, once, and has no further
\* record for a scanned file whose path was listed.
C35_ScanMergedWithoutDuplicates ==
  artifactFiles # <<>> =>
    LET fs == artifactFiles[1]
        scanned == scanForArtifacts(resultsDir)
    IN /\ SubSeq(fs, 1, Len(reportFiles)) = reportFiles
       /\ \A i \in 1..Len(scanned) :
            IF PathCount(reportFiles, scanned[i].filePath) = 0
            THEN \E k \in (Len(reportFiles) + 1)..Len(fs) : fs[k] = scanned[i]
            ELSE PathCount(fs, scanned[i].filePath) = PathCount(reportFiles, scanned[i].filePath)
       /\ Len(fs) = Len(reportFiles)
                     + Cardinality({i \in 1..Len(scanned) :
                                      PathCount(reportFiles, scanned[i].filePath) = 0})

C35_Witness ==
  /\ artifactFiles # <<>>
  /\ \E i, k \in 1..Len(resultsDir.entries) :
       /\ resultsDir.readable
       /\ resultsDir.entries[i].isFile /\ resultsDir.entries[k].isFile
       /\ PathCount(reportFiles, resultsDir.entries[i].path) = 1
       /\ PathCount(reportFiles, resultsDir.entries[k].path) = 0
       /\ PathCount(artifactFiles[1], resultsDir.entries[i].path) = 1
       /\ PathCount(artifactFiles[1], resultsDir.entries[k].path) = 1

\* the kinds of invalid input: the schema is violated, id or code is
\* missing or empty, or the base URL is not an http or https URL
InvalidInput(execution) ==
  \/ ~SchemaParses(execution)
  \/ execution.id \in {"undefined", ""}
  \/ execution.code \in {"undefined", ""}
  \/ /\ execution.baseUrl # "undefined"
     /\ protocol(execution.baseUrl) \notin {"http:", "https:"}

\* no invalid sample Execution gets past step 1 of executeTest
InvalidInputsFail ==
  \A execution \in ExecutionInputs : InvalidInput(execution) => ~Validates(execution)

\* C36: executeTest throws a validation error for every invalid input,
\* whatever the state of the pool, and a call that throws it leaves the
\* in-flight map, the sandboxes, the processes and the status of every
\* Execution as they were, and issues no status write.
C36_InvalidRejectedBeforeAdmission ==
  [][/\ InvalidInputsFail
     /\ Admission(FALSE) = "ValidationFailure"
     /\ (SubmitStep /\ lastSubmit' = "ValidationFailure") =>
          UNCHANGED <<runningTests, calls, job, pc, executionDir, child, status,
                      errorMessage, pending>>]_vars

C36_Witness ==
  /\ lastSubmit = "ValidationFailure"
  /\ Size > 0
  /\ \E execution \in ExecutionInputs :
       InvalidInput(execution) /\ execution.baseUrl = "ftp://h" /\ validateExecution(execution)

\* the calls whose runner process is alive
LiveRunners == {c \in Calls : child[c] = "alive"}

\* no two calls were made for the same Execution
DistinctSubmissions ==
  \A c, d \in Calls : (c # d /\ pc[c] # "idle" /\ pc[d] # "idle") => job[c] # job[d]

\* C37: the live runner processes are at most maxConcurrentTests, and a
\* call whose runner is alive still holds its entry in the in-flight map
\* (stated for submissions of distinct Executions, while the engine runs).
C37_LiveRunnersBounded ==
  (~exited /\ DistinctSubmissions) =>
    /\ Cardinality(LiveRunners) <= maxConcurrentTests
    /\ \A c \in LiveRunners : runningTests[job[c]] = c

\* the errors of a timeout, a spawn failure and a provisioning failure
EngineFailures == {TimeoutMessage, SpawnMessage, EnvMessage}

\* C38: a call spawns one runner at most and is not run again after a
\* failure: the child of a call changes only from none, or to exited; a call
\* in its failure path stays in it; and after a timeout, a spawn failure or
\* a provisioning failure the Execution is failed when the call leaves the
\* 'failed' write, and the call does not reject to the queue processor.
C38_OneRunnerNoRetryNoRaise ==
  [][\A c \in Calls :
       /\ child'[c] # child[c] => (child[c] = "none" \/ child'[c] = "exited")
       /\ pc[c] \in {"setFailed", "finally", "done"} =>
            pc'[c] \in {"setFailed", "finally", "done"}
       /\ error[c] \in EngineFailures =>
            /\ (pc[c] = "setFailed" /\ pc'[c] = "finally") => status'[job[c]] = "failed"
            /\ ~raised'[c]]_vars

\* C39: every admitted call leads to a state where its Execution has a
\* terminal status, the in-flight map no longer holds its entry and its
\* sampling timer is stopped (or the engine's process has exited).
C39_EventuallyTerminalAndReleased ==
  \A c \in 1..MaxFaultCalls :
    (pc[c] # "idle") ~>
      (exited \/ (/\ pc[c] # "idle"
                  /\ status[job[c]] \in Terminal
                  /\ runningTests[job[c]] # c
                  /\ ~metricsInterval[c]))

\* C40: once the runner of a call has closed or failed to spawn, its
\* timeout timer is not armed and does not fire, and no signal is sent to
\* it; and a close that comes after the timeout has failed the call leaves
\* the call where it is, issues no write and saves no result.
C40_NoTimeoutAfterClose ==
  [][\A c \in Calls :
       /\ child'[c] \in {"exited", "failed"} => timeoutId'[c] # "armed"
       /\ child[c] \in {"exited", "failed"} =>
            /\ timeoutId'[c] = timeoutId[c]
            /\ signals'[c] = signals[c]
            /\ killed'[c] = killed[c]
       /\ (child[c] = "alive" /\ child'[c] = "exited" /\ timeoutId[c] = "fired") =>
            UNCHANGED <<pc, pending, status, errorMessage, metricsDocs, detailDocs>>]_vars

C40_Witness ==
  \E c \in Calls :
    /\ child[c] = "exited"
    /\ timeoutId[c] = "fired"
    /\ killTimer[c] = "fired"
    /\ status[job[c]] = "failed"
====
